---- MODULE Spec2Model ----
\* A model of the web terminal's core: the path resolver, the in-memory
\* filesystem store, the command dispatcher, the command suggestions and the
\* session that submits command lines to the dispatcher.
\*
\* Strings are sequences of one-character strings, so that split, join,
\* startsWith, lastIndexOf and substring are computed character by character.
\* A piece of literal message text that no code ever parses (an error message
\* prefix, a static banner) is one element of such a sequence.
EXTENDS Integers, Sequences, FiniteSets, TLC

VARIABLES
  fileSystem,   \* the tree: a map with the single key "/" (fileSystem.ts:6-7)
  call,         \* the call made last: the operation and its arguments
  result,       \* what that call returned
  steps,        \* number of calls made so far
  session,      \* the terminal's state: current directory, history, scrollback
  editor        \* the input line: its text, the history cursor, the suggestions

vars == <<fileSystem, call, result, steps, session, editor>>

----------------------------------------------------------------------------
\* Bounds of the model

\* longest sequence of calls explored
MaxSteps == 2
\* a path token given to resolvePath alone is made of at most this many pieces
MaxResolvePieces == 3
\* and a current directory given to it of a slash and at most this many
MaxResolveDirPieces == 2
\* Math.random() draws one of the values 0/RandomDen .. (RandomDen-1)/RandomDen
RandomDen == 2

----------------------------------------------------------------------------
\* JavaScript string operations on character sequences

Min(a, b) == IF a < b THEN a ELSE b
Max(a, b) == IF a > b THEN a ELSE b

\* String.prototype.startsWith
startsWith(s, prefix) ==
  /\ Len(prefix) <= Len(s)
  /\ SubSeq(s, 1, Len(prefix)) = prefix

\* String.prototype.indexOf for a one-character needle, 0-based, -1 if absent
indexOf(s, c) ==
  IF \E i \in 1..Len(s) : s[i] = c
  THEN (CHOOSE i \in 1..Len(s) : s[i] = c /\ \A j \in 1..(i-1) : s[j] # c) - 1
  ELSE -1

\* String.prototype.lastIndexOf for a one-character needle, 0-based, -1 if absent
lastIndexOf(s, c) ==
  IF \E i \in 1..Len(s) : s[i] = c
  THEN (CHOOSE i \in 1..Len(s) : s[i] = c /\ \A j \in (i+1)..Len(s) : s[j] # c) - 1
  ELSE -1

\* String.prototype.substring(start, end): arguments clamped to 0..length and
\* swapped when start > end
substring(s, start, end) ==
  LET a == Max(0, Min(start, Len(s)))
      b == Max(0, Min(end, Len(s)))
  IN SubSeq(s, Min(a, b) + 1, Max(a, b))

\* String.prototype.substring(start)
substringFrom(s, start) == substring(s, start, Len(s))

\* String.prototype.split for a one-character separator: the pieces between
\* the separators, empty pieces included ("".split('/') is [""])
RECURSIVE split(_, _)
split(s, c) ==
  LET i == indexOf(s, c)
  IN IF i = -1 THEN <<s>>
     ELSE <<SubSeq(s, 1, i)>> \o split(SubSeq(s, i + 2, Len(s)), c)

\* Array.prototype.filter(Boolean) on an array of strings: drops the empty ones
filterBoolean(parts) == SelectSeq(parts, LAMBDA x : x # <<>>)

\* Array.prototype.join
RECURSIVE join(_, _)
join(parts, sep) ==
  IF parts = <<>> THEN <<>>
  ELSE IF Len(parts) = 1 THEN parts[1]
  ELSE parts[1] \o sep \o join(Tail(parts), sep)

\* Array.prototype.pop, as the array that is left (a no-op on the empty array)
pop(parts) == IF parts = <<>> THEN <<>> ELSE SubSeq(parts, 1, Len(parts) - 1)

\* path.replace(/\/$/, ''): one trailing slash removed
stripTrailingSlash(path) ==
  IF Len(path) > 0 /\ path[Len(path)] = "/"
  THEN SubSeq(path, 1, Len(path) - 1)
  ELSE path

\* String.prototype.includes
includes(s, needle) ==
  \E i \in 0..(Len(s) - Len(needle)) : SubSeq(s, i + 1, i + Len(needle)) = needle

----------------------------------------------------------------------------
\* Names and paths of the initial fixture

SLASH == <<"/">>
DOT == <<".">>
DOTDOT == <<".", ".">>
N_home == <<"h","o","m","e">>
N_user == <<"u","s","e","r">>
N_etc == <<"e","t","c">>
N_hosts == <<"h","o","s","t","s">>

\* the session's first current directory (Terminal.tsx:10) and handleCd's
\* default target (commands.ts:138)
HomeUser == <<"/">> \o N_home \o <<"/">> \o N_user

\* the command names of executeCommand's switch (commands.ts:11-70)
C_ls == <<"l","s">>
C_cd == <<"c","d">>
C_pwd == <<"p","w","d">>
C_cat == <<"c","a","t">>
C_echo == <<"e","c","h","o">>
C_mkdir == <<"m","k","d","i","r">>
C_touch == <<"t","o","u","c","h">>
C_whoami == <<"w","h","o","a","m","i">>
C_date == <<"d","a","t","e">>
C_clear == <<"c","l","e","a","r">>
C_help == <<"h","e","l","p">>
C_uname == <<"u","n","a","m","e">>
C_history == <<"h","i","s","t","o","r","y">>
C_which == <<"w","h","i","c","h">>
C_file == <<"f","i","l","e">>
C_head == <<"h","e","a","d">>
C_tail == <<"t","a","i","l">>
C_wc == <<"w","c">>
C_grep == <<"g","r","e","p">>
C_hello == <<"h","e","l","l","o">>
C_calc == <<"c","a","l","c">>
C_weather == <<"w","e","a","t","h","e","r">>
C_joke == <<"j","o","k","e">>
C_cowsay == <<"c","o","w","s","a","y">>
C_fortune == <<"f","o","r","t","u","n","e">>
C_matrix == <<"m","a","t","r","i","x">>
C_ascii == <<"a","s","c","i","i">>
C_color == <<"c","o","l","o","r">>
C_timer == <<"t","i","m","e","r">>

\* flags and literals the handlers compare their arguments with
FLAG_a == <<"-","a">>
FLAG_l == <<"-","l">>
FLAG_la == <<"-","l","a">>
FLAG_al == <<"-","a","l">>
FLAG_n == <<"-","n">>
CLEAR_SENTINEL == <<"_","_","C","L","E","A","R","_","_">>
CD_SENTINEL == <<"_","_","C","D","_","_">>
\* fileSystem.ts:46, the content literal of readme.txt (145 characters)
ReadmeContent ==
  <<
    "W","e","l","c","o","m","e"," ","t","o"," ","t","h","e"," ","W","e","b"," ","T","e","r","m","i",
    "n","a","l","!","\n","\n","T","h","i","s"," ","i","s"," ","a"," ","s","i","m","u","l","a","t",
    "e","d"," ","L","i","n","u","x"," ","e","n","v","i","r","o","n","m","e","n","t",".","\n","T",
    "r","y"," ","c","o","m","m","a","n","d","s"," ","l","i","k","e",":"," ","l","s",","," ","c","d",
    ","," ","p","w","d",","," ","c","a","t",","," ","m","k","d","i","r",","," ","t","o","u","c","h",
    ","," ","e","c","h","o","\n","\n","H","a","v","e"," ","f","u","n"," ","e","x","p","l","o","r",
    "i","n","g","!" >>

\* fileSystem.ts:56, the content literal of project.md (228 characters)
ProjectContent ==
  <<
    "#"," ","M","y"," ","P","r","o","j","e","c","t","\n","\n","T","h","i","s"," ","i","s"," ","a",
    " ","m","a","r","k","d","o","w","n"," ","f","i","l","e"," ","w","i","t","h"," ","p","r","o","j",
    "e","c","t"," ","d","o","c","u","m","e","n","t","a","t","i","o","n",".","\n","\n","#","#"," ",
    "F","e","a","t","u","r","e","s","\n","-"," ","T","e","r","m","i","n","a","l"," ","s","i","m",
    "u","l","a","t","i","o","n","\n","-"," ","F","i","l","e"," ","s","y","s","t","e","m"," ","o",
    "p","e","r","a","t","i","o","n","s","\n","-"," ","C","o","m","m","a","n","d"," ","h","i","s",
    "t","o","r","y","\n","\n","#","#"," ","U","s","a","g","e","\n","U","s","e"," ","s","t","a","n",
    "d","a","r","d"," ","L","i","n","u","x"," ","c","o","m","m","a","n","d","s"," ","t","o"," ","n",
    "a","v","i","g","a","t","e"," ","a","n","d"," ","i","n","t","e","r","a","c","t"," ","w","i","t",
    "h"," ","t","h","e"," ","f","i","l","e"," ","s","y","s","t","e","m","." >>

\* fileSystem.ts:77, the content literal of hello.sh (74 characters)
HelloContent ==
  <<
    "#","!","/","b","i","n","/","b","a","s","h","\n","e","c","h","o"," ","\"","H","e","l","l","o",
    ","," ","W","o","r","l","d","!","\"","\n","e","c","h","o"," ","\"","W","e","l","c","o","m","e",
    " ","t","o"," ","t","h","e"," ","t","e","r","m","i","n","a","l"," ","s","i","m","u","l","a","t",
    "o","r","!","\"" >>

\* fileSystem.ts:102, the content literal of hosts (62 characters)
HostsContent ==
  <<
    "1","2","7",".","0",".","0",".","1","\t","l","o","c","a","l","h","o","s","t","\n",":",":","1",
    "\t","\t","l","o","c","a","l","h","o","s","t"," ","i","p","6","-","l","o","c","a","l","h","o",
    "s","t"," ","i","p","6","-","l","o","o","p","b","a","c","k","\n" >>

----------------------------------------------------------------------------
\* The filesystem store (fileSystem.ts)

\* getItemAtPath's null
Null == [type |-> "null"]

\* A children object is the sequence of its entries in insertion order, which
\* is the order Object.values lists them in (no key here is an integer index).
\* a directory's children right after creation: {}
EmptyChildren == << >>

\* one property of a children object
entry(key, value) == [key |-> key, value |-> value]

\* `key in children`; `children[key]` is undefined, hence falsy, otherwise
hasKey(children, key) == \E i \in 1..Len(children) : children[i].key = key

\* `children[key]` for a key that is present
valueOf(children, key) ==
  children[CHOOSE i \in 1..Len(children) : children[i].key = key].value

\* `children[key] = value`: an existing key keeps its place, a new one is last
setKey(children, key, value) ==
  IF hasKey(children, key)
  THEN [i \in 1..Len(children) |->
          IF children[i].key = key THEN entry(key, value) ELSE children[i]]
  ELSE Append(children, entry(key, value))

\* Object.values(children)
ObjectValues(children) == [i \in 1..Len(children) |-> children[i].value]

\* a node of the initial fixture; the `modified` timestamp is left out of
\* every node (no operation reads it except ls -l, which prints it)
FixtureDir(name, owner, children) ==
  [name |-> name, type |-> "directory", permissions |-> "drwxr-xr-x",
   owner |-> owner, group |-> owner, size |-> 4096, children |-> children]

FixtureFile(name, content, permissions, owner, size) ==
  [name |-> name, type |-> "file", content |-> content,
   permissions |-> permissions, owner |-> owner, group |-> owner, size |-> size]

createInitialFileSystem ==
  LET documents == <<"d","o","c","u","m","e","n","t","s">>
      readme == <<"r","e","a","d","m","e",".","t","x","t">>
      project == <<"p","r","o","j","e","c","t",".","m","d">>
      scripts == <<"s","c","r","i","p","t","s">>
      hello_sh == <<"h","e","l","l","o",".","s","h">>
      var == <<"v","a","r">>
      log == <<"l","o","g">>
  IN SLASH :> FixtureDir(SLASH, "root", <<
       entry(N_home, FixtureDir(N_home, "root", <<
         entry(N_user, FixtureDir(N_user, "user", <<
           entry(documents, FixtureDir(documents, "user", <<
             entry(readme, FixtureFile(readme, ReadmeContent, "-rw-r--r--", "user", 142)),
             entry(project, FixtureFile(project, ProjectContent, "-rw-r--r--", "user", 203)) >>)),
           entry(scripts, FixtureDir(scripts, "user", <<
             entry(hello_sh, FixtureFile(hello_sh, HelloContent, "-rwxr-xr-x", "user", 75)) >>)) >>)) >>)),
       entry(N_etc, FixtureDir(N_etc, "root", <<
         entry(N_hosts, FixtureFile(N_hosts, HostsContent, "-rw-r--r--", "root", 67)) >>)),
       entry(var, FixtureDir(var, "root", <<
         entry(log, FixtureDir(log, "root", EmptyChildren)) >>)) >>)

\* `!current.children`: the node has no children property
hasChildren(node) == "children" \in DOMAIN node

\* the for loop of getItemAtPath
RECURSIVE walk(_, _)
walk(current, parts) ==
  IF parts = <<>> THEN current
  ELSE IF ~hasChildren(current) \/ ~hasKey(current.children, Head(parts))
       THEN Null
       ELSE walk(valueOf(current.children, Head(parts)), Tail(parts))

getItemAtPath(fs, path) ==
  IF path = SLASH THEN fs[SLASH]
  ELSE walk(fs[SLASH], filterBoolean(split(path, "/")))

\* the for loop of resolvePath
\* the loop of resolvePath with '..' skipped like '.'
RECURSIVE resolvePartsNoPop(_, _)
resolvePartsNoPop(resolvedParts, parts) ==
  IF parts = <<>> THEN resolvedParts
  ELSE IF Head(parts) \notin {DOTDOT, DOT, <<>>}
       THEN resolvePartsNoPop(Append(resolvedParts, Head(parts)), Tail(parts))
       ELSE resolvePartsNoPop(resolvedParts, Tail(parts))

RECURSIVE resolveParts(_, _)
resolveParts(resolvedParts, parts) ==
  IF parts = <<>> THEN resolvedParts
  ELSE IF Head(parts) = DOTDOT THEN resolveParts(pop(resolvedParts), Tail(parts))
  ELSE IF Head(parts) # DOT /\ Head(parts) # <<>>
       THEN resolveParts(Append(resolvedParts, Head(parts)), Tail(parts))
       ELSE resolveParts(resolvedParts, Tail(parts))

resolvePath(currentDir, path) ==
  IF startsWith(path, SLASH)
  THEN IF path = SLASH THEN SLASH ELSE stripTrailingSlash(path)
  ELSE IF path = DOT THEN currentDir
  ELSE IF path = DOTDOT
       THEN LET parts == pop(filterBoolean(split(currentDir, "/")))
            IN IF Len(parts) = 0 THEN SLASH ELSE SLASH \o join(parts, SLASH)
  ELSE LET parts == split(path, "/")
           seed == IF currentDir = SLASH THEN <<>>
                   ELSE filterBoolean(split(currentDir, "/"))
           resolvedParts == resolveParts(seed, parts)
       IN IF Len(resolvedParts) = 0 THEN SLASH ELSE SLASH \o join(resolvedParts, SLASH)

\* `path.substring(0, path.lastIndexOf('/')) || '/'`
parentPathOf(path) ==
  LET p == substring(path, 0, lastIndexOf(path, "/"))
  IN IF p = <<>> THEN SLASH ELSE p

\* `path.substring(path.lastIndexOf('/') + 1)`
leafNameOf(path) == substringFrom(path, lastIndexOf(path, "/") + 1)

\* `parent.children[name] = node` for the parent that getItemAtPath found
\* by walking `parts` from the root: the assignment is made in place, so
\* the tree changes at that place
RECURSIVE assignChild(_, _, _, _)
assignChild(node, parts, name, child) ==
  IF parts = <<>>
  THEN [node EXCEPT !.children = setKey(@, name, child)]
  ELSE [node EXCEPT !.children =
          setKey(@, Head(parts),
                 assignChild(valueOf(@, Head(parts)), Tail(parts), name, child))]

assignChildAt(fs, parentPath, name, child) ==
  LET parts == IF parentPath = SLASH THEN <<>>
               ELSE filterBoolean(split(parentPath, "/"))
  IN [fs EXCEPT ![SLASH] = assignChild(@, parts, name, child)]

\* newFile with the size left at 0
newFileSizeZero(fileName, content) ==
  [name |-> fileName, type |-> "file", content |-> content,
   permissions |-> "-rw-r--r--", owner |-> "user", group |-> "user",
   size |-> 0]

\* the object literal of createFile
newFile(fileName, content) ==
  [name |-> fileName, type |-> "file", content |-> content,
   permissions |-> "-rw-r--r--", owner |-> "user", group |-> "user",
   size |-> Len(content)]

\* newDirectory without the `children: {}` property
newDirectoryNoChildren(dirName) ==
  [name |-> dirName, type |-> "directory", permissions |-> "drwxr-xr-x",
   owner |-> "user", group |-> "user", size |-> 4096]

\* the object literal of createDirectory
newDirectory(dirName) ==
  [name |-> dirName, type |-> "directory", permissions |-> "drwxr-xr-x",
   owner |-> "user", group |-> "user", size |-> 4096,
   children |-> EmptyChildren]

\* `!parent || parent.type !== 'directory' || !parent.children`
parentRejected(parent) ==
  parent = Null \/ parent.type # "directory" \/ ~hasChildren(parent)

\* createFile with `return true` in place of the early `return false`
createFileAlwaysTrue(fs, path, content) ==
  LET parentPath == parentPathOf(path)
      fileName == leafNameOf(path)
      parent == getItemAtPath(fs, parentPath)
  IN IF parentRejected(parent)
     THEN [ok |-> TRUE, fileSystem |-> fs]
     ELSE [ok |-> TRUE,
           fileSystem |-> assignChildAt(fs, parentPath, fileName, newFile(fileName, content))]

\* createFile returns the boolean `ok`; `fileSystem` is the tree it leaves
createFile(fs, path, content) ==
  LET parentPath == parentPathOf(path)
      fileName == leafNameOf(path)
      parent == getItemAtPath(fs, parentPath)
  IN IF parentRejected(parent)
     THEN [ok |-> FALSE, fileSystem |-> fs]
     ELSE [ok |-> TRUE,
           fileSystem |-> assignChildAt(fs, parentPath, fileName, newFile(fileName, content))]

createDirectory(fs, path) ==
  LET parentPath == parentPathOf(path)
      dirName == leafNameOf(path)
      parent == getItemAtPath(fs, parentPath)
  IN IF parentRejected(parent)
     THEN [ok |-> FALSE, fileSystem |-> fs]
     ELSE [ok |-> TRUE,
           fileSystem |-> assignChildAt(fs, parentPath, dirName, newDirectory(dirName))]

----------------------------------------------------------------------------
\* More JavaScript library operations, used by the command handlers

\* Array.prototype.includes
arrayIncludes(arr, x) == \E i \in 1..Len(arr) : arr[i] = x

\* Array.prototype.slice(start, end), negative indices counted from the end
slice(arr, start, end) ==
  LET len == Len(arr)
      k == IF start < 0 THEN Max(len + start, 0) ELSE Min(start, len)
      final == IF end < 0 THEN Max(len + end, 0) ELSE Min(end, len)
  IN IF k < final THEN SubSeq(arr, k + 1, final) ELSE <<>>

\* Array.prototype.slice(start)
sliceFrom(arr, start) == slice(arr, start, Len(arr))

LowerOf ==
  ("A" :> "a") @@ ("B" :> "b") @@ ("C" :> "c") @@ ("D" :> "d") @@ ("E" :> "e")
  @@ ("F" :> "f") @@ ("G" :> "g") @@ ("H" :> "h") @@ ("I" :> "i") @@ ("J" :> "j")
  @@ ("K" :> "k") @@ ("L" :> "l") @@ ("M" :> "m") @@ ("N" :> "n") @@ ("O" :> "o")
  @@ ("P" :> "p") @@ ("Q" :> "q") @@ ("R" :> "r") @@ ("S" :> "s") @@ ("T" :> "t")
  @@ ("U" :> "u") @@ ("V" :> "v") @@ ("W" :> "w") @@ ("X" :> "x") @@ ("Y" :> "y")
  @@ ("Z" :> "z")

\* String.prototype.toLowerCase
toLowerCase(s) ==
  [i \in 1..Len(s) |-> IF s[i] \in DOMAIN LowerOf THEN LowerOf[s[i]] ELSE s[i]]

\* String.prototype.toUpperCase
toUpperCase(s) ==
  [i \in 1..Len(s) |->
     IF \E u \in DOMAIN LowerOf : LowerOf[u] = s[i]
     THEN CHOOSE u \in DOMAIN LowerOf : LowerOf[u] = s[i]
     ELSE s[i]]

DigitValue ==
  ("0" :> 0) @@ ("1" :> 1) @@ ("2" :> 2) @@ ("3" :> 3) @@ ("4" :> 4)
  @@ ("5" :> 5) @@ ("6" :> 6) @@ ("7" :> 7) @@ ("8" :> 8) @@ ("9" :> 9)

isDigit(c) == c \in DOMAIN DigitValue

\* the characters /\s/ matches, among those that occur here
isWhitespace(c) == c \in {" ", "\t", "\n"}

\* Number.prototype.toString for a non-negative integer
RECURSIVE numberToString(_)
numberToString(n) ==
  LET d == CHOOSE c \in DOMAIN DigitValue : DigitValue[c] = n % 10
  IN IF n < 10 THEN <<d>> ELSE Append(numberToString(n \div 10), d)

\* String.prototype.repeat for a one-character string
repeat(c, n) == [i \in 1..n |-> c]

\* String.prototype.padStart(n) and padEnd(n) with the default pad, a space
padStart(s, n) == repeat(" ", n - Len(s)) \o s
padEnd(s, n) == s \o repeat(" ", n - Len(s))

\* the value of a string of decimal digits
RECURSIVE digitsValue(_)
digitsValue(s) ==
  IF s = <<>> THEN 0
  ELSE 10 * digitsValue(SubSeq(s, 1, Len(s) - 1)) + DigitValue[s[Len(s)]]

\* the longest prefix of s made of whitespace
RECURSIVE whitespacePrefix(_)
whitespacePrefix(s) ==
  IF s = <<>> \/ ~isWhitespace(Head(s)) THEN <<>>
  ELSE <<Head(s)>> \o whitespacePrefix(Tail(s))

\* the longest prefix of s made of decimal digits
RECURSIVE digitPrefix(_)
digitPrefix(s) ==
  IF s = <<>> \/ ~isDigit(Head(s)) THEN <<>>
  ELSE <<Head(s)>> \o digitPrefix(Tail(s))

\* parseInt(s) without a radix, for input in which no "0x" prefix occurs:
\* leading whitespace skipped, an optional sign, then the decimal digits up
\* to the first other character; NaN when there is no digit
parseInt(s) ==
  LET skipped == SubSeq(s, Len(whitespacePrefix(s)) + 1, Len(s))
      signed == Len(skipped) > 0 /\ skipped[1] \in {"+", "-"}
      body == IF signed THEN Tail(skipped) ELSE skipped
      digits == digitPrefix(body)
  IN IF digits = <<>> THEN [isNaN |-> TRUE, value |-> 0]
     ELSE [isNaN |-> FALSE,
           value |-> IF signed /\ skipped[1] = "-"
                     THEN 0 - digitsValue(digits) ELSE digitsValue(digits)]

\* `content.split(/\s+/).filter(w => w.length > 0).length`: the number of
\* maximal runs of characters that are not whitespace
countWords(s) ==
  Cardinality({i \in 1..Len(s) :
                 ~isWhitespace(s[i]) /\ (i = 1 \/ isWhitespace(s[i - 1]))})

\* Math.floor(Math.random() * n), the draw being r / RandomDen
randomIndex(r, n) == (r * n) \div RandomDen

----------------------------------------------------------------------------
\* The command dispatcher (part_000)

\* a CommandResult without and with the optional `error` property
success(output) == [output |-> output, exitCode |-> 0]
successCode(output, exitCode) == [output |-> output, exitCode |-> exitCode]
failure(error, exitCode) == [output |-> <<>>, error |-> error, exitCode |-> exitCode]

\* `item.content || ''`
contentOf(item) == IF "content" \in DOMAIN item THEN item.content ELSE <<>>

\* one line of ls -l; the date column prints `modified`, which this model
\* does not hold
longLine(item) ==
  <<item.permissions, " 1 ", item.owner, " ", item.group, " ">>
  \o padStart(numberToString(item.size), 8) \o <<" ", "<date>", " ">> \o item.name

\* the synthetic '.' and '..' entries of ls -a
syntheticEntry(name) ==
  [name |-> name, type |-> "directory", permissions |-> "drwxr-xr-x",
   owner |-> "user", group |-> "user", size |-> 4096]

\* args.find(arg => !arg.startsWith('-')): the first such argument, or
\* undefined, which is <<>> here: `|| currentDir` replaces both alike
findNonFlag(args) ==
  LET hits == SelectSeq(args, LAMBDA a : ~startsWith(a, <<"-">>))
  IN IF hits = <<>> THEN <<>> ELSE hits[1]

nameOf(item) == item.name

handleLs(args, currentDir, fs) ==
  LET showAll == arrayIncludes(args, FLAG_a) \/ arrayIncludes(args, FLAG_la)
                 \/ arrayIncludes(args, FLAG_al)
      longFormat == arrayIncludes(args, FLAG_l) \/ arrayIncludes(args, FLAG_la)
                    \/ arrayIncludes(args, FLAG_al)
      targetPath == IF findNonFlag(args) = <<>> THEN currentDir ELSE findNonFlag(args)
      resolvedPath == resolvePath(currentDir, targetPath)
      item == getItemAtPath(fs, resolvedPath)
      all == ObjectValues(item.children)
      shown == IF showAll THEN all
               ELSE SelectSeq(all, LAMBDA i : ~startsWith(i.name, DOT))
      items == IF showAll /\ resolvedPath # SLASH
               THEN <<syntheticEntry(DOT), syntheticEntry(DOTDOT)>> \o shown
               ELSE shown
  IN IF item = Null
     THEN failure(<<"ls: cannot access '">> \o targetPath
                  \o <<"': No such file or directory">>, 2)
     ELSE IF item.type = "file"
     THEN IF longFormat THEN success(longLine(item)) ELSE success(item.name)
     ELSE IF ~hasChildren(item) THEN success(<<>>)
     ELSE IF longFormat THEN success(join([i \in 1..Len(items) |-> longLine(items[i])], <<"\n">>))
     ELSE success(join([i \in 1..Len(items) |-> nameOf(items[i])], <<" ", " ">>))

\* `args[0] || '/home/user'`
cdTarget(args) == IF args = <<>> \/ args[1] = <<>> THEN HomeUser ELSE args[1]

\* handleCd without the test that the target is a directory
handleCdToAnyNode(args, currentDir, fs) ==
  LET targetPath == cdTarget(args)
      resolvedPath == resolvePath(currentDir, targetPath)
      item == getItemAtPath(fs, resolvedPath)
  IN IF item = Null
     THEN failure(<<"bash: cd: ">> \o targetPath \o <<": No such file or directory">>, 1)
     ELSE success(CD_SENTINEL \o resolvedPath)

handleCd(args, currentDir, fs) ==
  LET targetPath == cdTarget(args)
      resolvedPath == resolvePath(currentDir, targetPath)
      item == getItemAtPath(fs, resolvedPath)
  IN IF item = Null
     THEN failure(<<"bash: cd: ">> \o targetPath \o <<": No such file or directory">>, 1)
     ELSE IF item.type # "directory"
     THEN failure(<<"bash: cd: ">> \o targetPath \o <<": Not a directory">>, 1)
     ELSE success(CD_SENTINEL \o resolvedPath)

\* the for loop of handleCat: the result of the first argument that fails,
\* or the contents collected
RECURSIVE catLoop(_, _, _, _)
catLoop(args, currentDir, fs, results) ==
  IF args = <<>> THEN success(join(results, <<"\n">>))
  ELSE LET filePath == Head(args)
           item == getItemAtPath(fs, resolvePath(currentDir, filePath))
       IN IF item = Null
          THEN failure(<<"cat: ">> \o filePath \o <<": No such file or directory">>, 1)
          ELSE IF item.type # "file"
          THEN failure(<<"cat: ">> \o filePath \o <<": Is a directory">>, 1)
          ELSE catLoop(Tail(args), currentDir, fs, Append(results, contentOf(item)))

\* handleCat with the `error` property left out of the missing-operand result
handleCatNoError(args, currentDir, fs) ==
  IF Len(args) = 0 THEN successCode(<<>>, 1)
  ELSE catLoop(args, currentDir, fs, <<>>)

handleCat(args, currentDir, fs) ==
  IF Len(args) = 0 THEN failure(<<"cat: missing file operand">>, 1)
  ELSE catLoop(args, currentDir, fs, <<>>)

\* the loop of handleMkdir going on to the next argument after a failure
RECURSIVE mkdirLoopKeepGoing(_, _, _)
mkdirLoopKeepGoing(args, currentDir, fs) ==
  IF args = <<>> THEN [result |-> success(<<>>), fileSystem |-> fs]
  ELSE LET dirPath == Head(args)
           made == createDirectory(fs, resolvePath(currentDir, dirPath))
       IN IF ~made.ok
          THEN [result |-> failure(<<"mkdir: cannot create directory '">> \o dirPath
                             \o <<"': File exists or parent directory doesn't exist">>, 1),
                fileSystem |-> mkdirLoopKeepGoing(Tail(args), currentDir, fs).fileSystem]
          ELSE mkdirLoopKeepGoing(Tail(args), currentDir, made.fileSystem)

\* the for loop of handleMkdir: each directory is created in the tree the
\* previous one left; the first failure returns with that tree
RECURSIVE mkdirLoop(_, _, _)
mkdirLoop(args, currentDir, fs) ==
  IF args = <<>> THEN [result |-> success(<<>>), fileSystem |-> fs]
  ELSE LET dirPath == Head(args)
           made == createDirectory(fs, resolvePath(currentDir, dirPath))
       IN IF ~made.ok
          THEN [result |-> failure(<<"mkdir: cannot create directory '">> \o dirPath
                             \o <<"': File exists or parent directory doesn't exist">>, 1),
                fileSystem |-> made.fileSystem]
          ELSE mkdirLoop(Tail(args), currentDir, made.fileSystem)

handleMkdir(args, currentDir, fs) ==
  IF Len(args) = 0
  THEN [result |-> failure(<<"mkdir: missing operand">>, 1), fileSystem |-> fs]
  ELSE mkdirLoop(args, currentDir, fs)

\* the for loop of handleTouch
RECURSIVE touchLoop(_, _, _)
touchLoop(args, currentDir, fs) ==
  IF args = <<>> THEN [result |-> success(<<>>), fileSystem |-> fs]
  ELSE LET filePath == Head(args)
           made == createFile(fs, resolvePath(currentDir, filePath), <<>>)
       IN IF ~made.ok
          THEN [result |-> failure(<<"touch: cannot touch '">> \o filePath
                             \o <<"': No such file or directory">>, 1),
                fileSystem |-> made.fileSystem]
          ELSE touchLoop(Tail(args), currentDir, made.fileSystem)

handleTouch(args, currentDir, fs) ==
  IF Len(args) = 0
  THEN [result |-> failure(<<"touch: missing file operand">>, 1), fileSystem |-> fs]
  ELSE touchLoop(args, currentDir, fs)

\* the static usage text is one piece of text
handleHelp == success(<<"Available commands: ... arrow keys for history navigation.">>)

handleUname(args) ==
  IF arrayIncludes(args, FLAG_a)
  THEN success(<<"Linux webterminal 5.15.0 #1 SMP Web Terminal Simulator x86_64 GNU/Linux">>)
  ELSE success(<<"L","i","n","u","x">>)

\* the `commands` array of handleWhich
whichCommands ==
  <<C_ls, C_cd, C_pwd, C_cat, C_echo, C_mkdir, C_touch, C_whoami, C_date, C_clear,
    C_help, C_uname, C_which, C_file, C_head, C_tail, C_wc, C_grep,
    C_hello, C_calc, C_weather, C_joke, C_cowsay, C_fortune, C_matrix, C_ascii,
    C_color, C_timer>>

handleWhich(args) ==
  IF Len(args) = 0 THEN failure(<<"which: missing argument">>, 1)
  ELSE LET command == args[1]
       IN IF arrayIncludes(whichCommands, command)
          THEN success(<<"/","b","i","n","/">> \o command)
          ELSE failure(<<"which: no ">> \o command \o <<" in (/bin:/usr/bin)">>, 1)

\* one line of handleFile's results
fileLine(filePath, currentDir, fs) ==
  LET item == getItemAtPath(fs, resolvePath(currentDir, filePath))
      extension == toLowerCase(split(item.name, ".")[Len(split(item.name, "."))])
      type == IF extension = <<"m","d">> THEN <<"ASCII text (Markdown)">>
              ELSE IF extension = <<"s","h">> THEN <<"Bourne-Again shell script">>
              ELSE <<"ASCII text">>
  IN IF item = Null THEN filePath \o <<": cannot open (No such file or directory)">>
     ELSE IF item.type = "directory" THEN filePath \o <<": directory">>
     ELSE filePath \o <<": ">> \o type

handleFile(args, currentDir, fs) ==
  IF Len(args) = 0 THEN failure(<<"file: missing file operand">>, 1)
  ELSE success(join([i \in 1..Len(args) |-> fileLine(args[i], currentDir, fs)], <<"\n">>))

\* `args[0] === '-n' && args[1]`: the flag followed by a non-empty argument
hasCount(args) == Len(args) >= 2 /\ args[1] = FLAG_n /\ args[2] # <<>>

\* `parseInt(args[1]) || 10`: NaN and 0 are falsy
lineCount(args) ==
  IF hasCount(args)
  THEN IF parseInt(args[2]).isNaN \/ parseInt(args[2]).value = 0
       THEN 10 ELSE parseInt(args[2]).value
  ELSE 10

fileArgsOf(args) == IF hasCount(args) THEN sliceFrom(args, 2) ELSE args

handleHead(args, currentDir, fs) ==
  LET lines == lineCount(args)
      fileArgs == fileArgsOf(args)
      filePath == fileArgs[1]
      item == getItemAtPath(fs, resolvePath(currentDir, filePath))
      contentLines == split(contentOf(item), "\n")
  IN IF Len(fileArgs) = 0 THEN failure(<<"head: missing file operand">>, 1)
     ELSE IF item = Null
     THEN failure(<<"head: ">> \o filePath \o <<": No such file or directory">>, 1)
     ELSE IF item.type # "file"
     THEN failure(<<"head: ">> \o filePath \o <<": Is a directory">>, 1)
     ELSE success(join(slice(contentLines, 0, lines), <<"\n">>))

handleTail(args, currentDir, fs) ==
  LET lines == lineCount(args)
      fileArgs == fileArgsOf(args)
      filePath == fileArgs[1]
      item == getItemAtPath(fs, resolvePath(currentDir, filePath))
      contentLines == split(contentOf(item), "\n")
  IN IF Len(fileArgs) = 0 THEN failure(<<"tail: missing file operand">>, 1)
     ELSE IF item = Null
     THEN failure(<<"tail: ">> \o filePath \o <<": No such file or directory">>, 1)
     ELSE IF item.type # "file"
     THEN failure(<<"tail: ">> \o filePath \o <<": Is a directory">>, 1)
     ELSE success(join(sliceFrom(contentLines, 0 - lines), <<"\n">>))

handleWc(args, currentDir, fs) ==
  LET filePath == args[1]
      item == getItemAtPath(fs, resolvePath(currentDir, filePath))
      content == contentOf(item)
      lines == Len(split(content, "\n"))
      words == countWords(content)
      chars == Len(content)
  IN IF Len(args) = 0 THEN failure(<<"wc: missing file operand">>, 1)
     ELSE IF item = Null
     THEN failure(<<"wc: ">> \o filePath \o <<": No such file or directory">>, 1)
     ELSE IF item.type # "file"
     THEN failure(<<"wc: ">> \o filePath \o <<": Is a directory">>, 1)
     ELSE success(padStart(numberToString(lines), 8) \o <<" ">>
             \o padStart(numberToString(words), 7) \o <<" ">>
             \o padStart(numberToString(chars), 7) \o <<" ">> \o filePath)

handleGrep(args, currentDir, fs) ==
  LET pattern == args[1]
      filePath == args[2]
      item == getItemAtPath(fs, resolvePath(currentDir, filePath))
      lines == split(contentOf(item), "\n")
      matchingLines == SelectSeq(lines, LAMBDA line : includes(line, pattern))
  IN IF Len(args) < 2 THEN failure(<<"grep: missing pattern or file operand">>, 1)
     ELSE IF item = Null
     THEN failure(<<"grep: ">> \o filePath \o <<": No such file or directory">>, 1)
     ELSE IF item.type # "file"
     THEN failure(<<"grep: ">> \o filePath \o <<": Is a directory">>, 1)
     ELSE successCode(join(matchingLines, <<"\n">>),
                 IF Len(matchingLines) > 0 THEN 0 ELSE 1)

\* The custom commands. `random` is the sequence of Math.random() draws the
\* call makes, each a numerator over RandomDen.

handleHello(args, random) ==
  LET name == IF Len(args) > 0 THEN join(args, <<" ">>) ELSE <<"W","o","r","l","d">>
      greetings == << <<"Hello, ">> \o name \o <<"! (wave)">>,
                      <<"Hi there, ">> \o name \o <<"! Welcome to the terminal!">>,
                      <<"Greetings, ">> \o name \o <<"! How can I help you today?">>,
                      <<"Hey ">> \o name \o <<"! Nice to see you here!">>,
                      <<"Hello ">> \o name \o <<"! Ready to explore the terminal?">> >>
  IN success(greetings[randomIndex(random[1], Len(greetings)) + 1])

\* the characters /[^0-9+\-*/.() ]/ lets through
isCalcChar(c) == isDigit(c) \/ c \in {"+", "-", "*", "/", ".", "(", ")", " "}

\* handleCalc; whether evaluating the sanitized expression throws, and the
\* value it yields otherwise, are the JavaScript engine's: `throws` is either
handleCalc(args, throws) ==
  LET expression == join(args, <<" ">>)
      sanitized == SelectSeq(expression, isCalcChar)
  IN IF Len(args) = 0 THEN failure(<<"calc: missing expression">>, 1)
     ELSE IF sanitized # expression
     THEN failure(<<"calc: invalid characters in expression">>, 1)
     ELSE IF throws THEN failure(<<"calc: invalid expression">>, 1)
     ELSE success(expression \o <<" = ", "<value>">>)

weatherConditions ==
  <<"Sunny", "Cloudy", "Rainy", "Snowy", "Partly Cloudy", "Stormy">>

handleWeather(args, random) ==
  LET city == IF Len(args) > 0 THEN join(args, <<" ">>) ELSE <<"Unknown Location">>
      condition == weatherConditions[randomIndex(random[1], Len(weatherConditions)) + 1]
      temp == randomIndex(random[2], 35) + 5
      humidity == randomIndex(random[3], 60) + 30
  IN success(<<"Weather for ">> \o city \o <<":\n", "Condition: ", condition,
               "Temperature: ">> \o numberToString(temp) \o <<"C", "Humidity: ">>
             \o numberToString(humidity)
             \o <<"%", "\n\nNote: This is simulated weather data!">>)

jokes ==
  <<"Why don't scientists trust atoms? Because they make up everything!",
    "Why did the programmer quit his job? He didn't get arrays!",
    "Why do programmers prefer dark mode? Because light attracts bugs!",
    "How many programmers does it take to change a light bulb? None, that's a hardware problem!",
    "Why did the developer go broke? Because he used up all his cache!",
    "What's a computer's favorite snack? Microchips!",
    "Why don't keyboards sleep? They have two shifts!",
    "What do you call a programmer from Finland? Nerdic!",
    "Why did the computer go to the doctor? It had a virus!",
    "What's the object-oriented way to become wealthy? Inheritance!">>

handleJoke(random) == success(<<jokes[randomIndex(random[1], Len(jokes)) + 1]>>)

handleCowsay(args) ==
  LET message == IF Len(args) > 0 THEN join(args, <<" ">>)
                 ELSE <<"Hello from the terminal!">>
      border == repeat("-", Len(message) + 2)
  IN success(<<"\n", " ">> \o border \o <<"\n", "<", " ">> \o message
             \o <<" ", ">", "\n", " ">> \o border \o <<"<the cow>">>)

fortunes ==
  <<"The best time to plant a tree was 20 years ago. The second best time is now.",
    "Your future is created by what you do today, not tomorrow.",
    "The only way to do great work is to love what you do.",
    "Innovation distinguishes between a leader and a follower.",
    "Code is like humor. When you have to explain it, it's bad.",
    "First, solve the problem. Then, write the code.",
    "Experience is the name everyone gives to their mistakes.",
    "The best error message is the one that never shows up.",
    "Simplicity is the ultimate sophistication.",
    "Programs must be written for people to read, and only incidentally for machines to execute.">>

handleFortune(random) ==
  success(<<"Fortune Cookie:\n\n\"", fortunes[randomIndex(random[1], Len(fortunes)) + 1],
            "\"">>)

handleMatrix == success(<<"MATRIX MODE ACTIVATED ... Welcome to the Real World!">>)

\* the three rows of the glyph of one character; the rows themselves are
\* named, not drawn
glyphOf(char) ==
  IF char \in {"A", "B", "C", "D", "E", "H", "I", "L", "O", " "}
  THEN <<char, char, char>>
  ELSE <<"?", "?", "?">>

\* lines[row] after the forEach: every glyph's row followed by a space
RECURSIVE asciiRow(_, _)
asciiRow(text, row) ==
  IF text = <<>> THEN <<>>
  ELSE <<"glyph row", numberToString(row)[1], glyphOf(Head(text))[row], " ">>
       \o asciiRow(Tail(text), row)

handleAscii(args) ==
  LET text == toUpperCase(join(args, <<" ">>))
  IN IF Len(args) = 0 THEN failure(<<"ascii: missing text argument">>, 1)
     ELSE IF Len(text) = 0 THEN success(<<"No ASCII art available for this text">>)
     ELSE success(join(<<asciiRow(text, 1), asciiRow(text, 2), asciiRow(text, 3)>>,
                       <<"\n">>))

\* the keys of handleColor's `themes`
themes == {<<"g","r","e","e","n">>, <<"b","l","u","e">>, <<"r","e","d">>, <<"p","u","r","p","l","e">>, <<"o","r","a","n","g","e">>, <<"c","y","a","n">>}

handleColor(args) ==
  LET theme == toLowerCase(args[1])
  IN IF Len(args) = 0 THEN success(<<"Available color themes: ... Usage: color <theme-name>">>)
     ELSE IF theme \in themes THEN success(theme \o <<" theme activated!">>)
     ELSE failure(<<"color: unknown theme '">> \o theme \o <<"'">>, 1)

handleTimer(args) ==
  LET seconds == parseInt(args[1])
  IN IF Len(args) = 0 THEN failure(<<"timer: missing seconds argument">>, 1)
     ELSE IF seconds.isNaN \/ seconds.value <= 0
     THEN failure(<<"timer: invalid number of seconds">>, 1)
     ELSE success(<<"Timer started for ">> \o numberToString(seconds.value)
                  \o <<" seconds!", "\n\n", "TIMER ACTIVE">>
                  \o padStart(numberToString(seconds.value), 3)
                  \o <<" seconds", "Note: This is a visual timer.">>)

\* the commands that change the tree return it changed; every other command
\* returns it as it was given
\* a handler that hands back the initial fixture in place of the tree it read
unchangedFromFixture(res, fs) == [result |-> res, fileSystem |-> createInitialFileSystem]

unchanged(res, fs) == [result |-> res, fileSystem |-> fs]

\* the names the switch of executeCommand has a case for
dispatchNames ==
  {C_ls, C_cd, C_pwd, C_cat, C_echo, C_mkdir, C_touch, C_whoami, C_date, C_clear,
   C_help, C_uname, C_history, C_which, C_file, C_head, C_tail, C_wc, C_grep,
   C_hello, C_calc, C_weather, C_joke, C_cowsay, C_fortune, C_matrix, C_ascii,
   C_color, C_timer}

\* the default case with exitCode 1 in place of 127
commandNotFoundExitOne(command) ==
  failure(<<"bash: ">> \o command \o <<": command not found">>, 1)

\* the default case of the switch
commandNotFound(command) ==
  failure(<<"bash: ">> \o command \o <<": command not found">>, 127)

\* executeCommand: the result and the tree after the call. `random` and
\* `throws` stand for what the call reads from outside its arguments.
executeCommand(command, args, currentDir, fs, random, throws) ==
  CASE command = C_ls -> unchanged(handleLs(args, currentDir, fs), fs)
    [] command = C_cd -> unchanged(handleCd(args, currentDir, fs), fs)
    [] command = C_pwd -> unchanged(success(currentDir), fs)
    [] command = C_cat -> unchanged(handleCat(args, currentDir, fs), fs)
    [] command = C_echo -> unchanged(success(join(args, <<" ">>)), fs)
    [] command = C_mkdir -> handleMkdir(args, currentDir, fs)
    [] command = C_touch -> handleTouch(args, currentDir, fs)
    [] command = C_whoami -> unchanged(success(<<"u","s","e","r">>), fs)
    [] command = C_date -> unchanged(success(<<"<new Date().toString()>">>), fs)
    [] command = C_clear -> unchanged(success(CLEAR_SENTINEL), fs)
    [] command = C_help -> unchanged(handleHelp, fs)
    [] command = C_uname -> unchanged(handleUname(args), fs)
    [] command = C_history ->
         unchanged(success(<<"Command history not available in this context">>), fs)
    [] command = C_which -> unchanged(handleWhich(args), fs)
    [] command = C_file -> unchanged(handleFile(args, currentDir, fs), fs)
    [] command = C_head -> unchanged(handleHead(args, currentDir, fs), fs)
    [] command = C_tail -> unchanged(handleTail(args, currentDir, fs), fs)
    [] command = C_wc -> unchanged(handleWc(args, currentDir, fs), fs)
    [] command = C_grep -> unchanged(handleGrep(args, currentDir, fs), fs)
    [] command = C_hello -> unchanged(handleHello(args, random), fs)
    [] command = C_calc -> unchanged(handleCalc(args, throws), fs)
    [] command = C_weather -> unchanged(handleWeather(args, random), fs)
    [] command = C_joke -> unchanged(handleJoke(random), fs)
    [] command = C_cowsay -> unchanged(handleCowsay(args), fs)
    [] command = C_fortune -> unchanged(handleFortune(random), fs)
    [] command = C_matrix -> unchanged(handleMatrix, fs)
    [] command = C_ascii -> unchanged(handleAscii(args), fs)
    [] command = C_color -> unchanged(handleColor(args), fs)
    [] command = C_timer -> unchanged(handleTimer(args), fs)
    [] OTHER -> unchanged(commandNotFound(command), fs)

----------------------------------------------------------------------------
\* Inputs

\* what path tokens are made of: the separator, the dot and two names the
\* fixture uses (/etc is a directory, /etc/hosts a file)
Pieces == {SLASH, DOT, N_etc, N_hosts}
Names == {N_etc, N_hosts}

EtcPath == SLASH \o N_etc
EtcHostsPath == SLASH \o N_etc \o SLASH \o N_hosts

\* the path tokens given to commands: one piece, two pieces of which one is
\* no name (two names in a row are one longer name), and two deeper paths.
\* parseCommand yields no empty argument.
PathTokens ==
  Pieces
  \cup {p \o q : p \in Pieces \ Names, q \in Pieces}
  \cup {p \o q : p \in Names, q \in Pieces \ Names}
  \cup {EtcHostsPath, N_etc \o SLASH \o N_hosts}

\* argument lists of mkdir and touch: none, one token, or several
CreateArgLists ==
  {<<>>} \cup {<<t>> : t \in PathTokens}
  \cup {<<N_etc, N_etc \o SLASH \o N_hosts>>, <<N_etc \o SLASH \o N_hosts, N_etc>>,
        <<N_hosts, N_etc>>, <<N_hosts, N_etc \o SLASH \o N_hosts, N_etc>>}

\* the tokens given to the commands that read a path
ReadTokens == {N_hosts, N_etc, EtcHostsPath, DOTDOT, N_etc \o SLASH \o N_hosts}

ReadArgLists == {<<>>} \cup {<<t>> : t \in ReadTokens} \cup {<<N_hosts, N_etc>>}

CdArgLists == {<<>>} \cup {<<t>> : t \in PathTokens}

LsFlags == {FLAG_a, FLAG_l, FLAG_la, FLAG_al}

LsArgLists ==
  ReadArgLists
  \cup {<<f>> : f \in LsFlags}
  \cup {<<f, t>> : f \in LsFlags, t \in {SLASH, N_hosts}}
  \cup {<<FLAG_l, FLAG_a>>, <<FLAG_l, FLAG_a, SLASH>>, <<SLASH \o SLASH, FLAG_a>>,
          <<FLAG_a, SLASH \o SLASH \o SLASH>>, <<FLAG_la, DOTDOT>>}

CountArgLists ==
  ReadArgLists
  \cup {<<FLAG_n, n, N_hosts>> : n \in {<<"0">>, <<"1">>, <<"2">>, <<"3">>, <<"-", "1">>, N_etc}}
  \cup {<<FLAG_n>>, <<FLAG_n, <<"1">> >>}

GrepArgLists ==
  {<<>>, <<DOT>>}
  \cup {<<p, f>> : p \in {DOT, N_etc, <<"l", "o">>}, f \in {N_hosts, N_etc, EtcHostsPath}}

\* names that are not in the switch
UnknownCommands == {N_etc, <<"L", "S">>, <<"r", "m">>}

CommandNames == dispatchNames \cup UnknownCommands

ArgListsOf(command) ==
  CASE command = C_ls -> LsArgLists
    [] command \in {C_mkdir, C_touch} -> CreateArgLists
    [] command = C_cd -> CdArgLists
    [] command \in {C_head, C_tail} -> CountArgLists
    [] command = C_grep -> GrepArgLists
    [] command \in {C_cat, C_file, C_wc} -> ReadArgLists
    [] command = C_which -> {<<>>, <<C_ls>>, <<C_history>>, <<N_etc>>}
    [] command = C_calc ->
         {<<>>, << <<"1", "+", "1">> >>, << <<"1">>, <<"/">>, <<"0">> >>,
          << <<"(">> >>, <<N_etc>>}
    [] command = C_color -> {<<>>, <<<<"r","e","d">>>>, << <<"R", "e", "d">> >>, <<N_etc>>}
    [] command = C_timer ->
         {<<>>, << <<"5">> >>, << <<"0">> >>, << <<"-", "1">> >>, <<N_etc>>}
    [] command = C_ascii -> {<<>>, << <<"H", "i">> >>}
    [] command = C_uname -> {<<>>, <<FLAG_a>>}
    [] command \in {C_echo, C_hello, C_weather, C_cowsay} ->
         {<<>>, <<N_etc>>, <<N_etc, N_hosts>>}
    [] OTHER -> {<<>>, <<N_etc>>}

\* the current directories execute is called with: the session's first one
\* and one that holds a file
CurrentDirs == {HomeUser, EtcPath}

\* only the commands that use the current directory are called with both
CurrentDirsOf(command) ==
  IF command \in {C_ls, C_cd, C_pwd, C_cat, C_mkdir, C_touch, C_file, C_head,
                  C_tail, C_wc, C_grep}
  THEN CurrentDirs ELSE {HomeUser}

Draws == 0..(RandomDen - 1)

RandomsOf(command) ==
  CASE command = C_weather -> Draws \X Draws \X Draws
    [] command \in {C_hello, C_joke, C_fortune} -> {<<r, 0, 0>> : r \in Draws}
    [] OTHER -> {<<0, 0, 0>>}

ThrowsOf(command) == IF command = C_calc THEN BOOLEAN ELSE {FALSE}

\* the paths given to the store's primitives: absolute paths of one and two
\* segments, empty and dot segments included, and two paths without a
\* leading slash
StoreSegments == {<<>>, DOT, N_etc, N_hosts}

StorePaths ==
  {SLASH \o s : s \in StoreSegments}
  \cup {SLASH \o s \o SLASH \o t : s \in StoreSegments, t \in StoreSegments}
  \cup {N_etc, N_etc \o SLASH \o N_hosts}

StoreContents == {<<>>, <<"h", "i">>}

\* the concatenations of at most n pieces
RECURSIVE TokensUpTo(_)
TokensUpTo(n) ==
  IF n = 0 THEN {<<>>}
  ELSE TokensUpTo(n - 1) \cup {t \o p : t \in TokensUpTo(n - 1), p \in Pieces}

\* the tokens and the current directories given to resolvePath alone
ResolveTokens ==
  (TokensUpTo(MaxResolvePieces) \ {<<>>}) \cup {DOTDOT \o SLASH \o DOTDOT \o SLASH \o N_etc}
ResolveDirs == {SLASH} \cup {SLASH \o t : t \in TokensUpTo(MaxResolveDirPieces)} \cup {HomeUser}

----------------------------------------------------------------------------
\* The dispatcher called on the session's tree, one command after another.
\* A call leaves its arguments in `call` and what it returned in `result`;
\* the caller takes the result before it makes the next call.

NoCall == [op |-> "none"]
NoResult == [none |-> TRUE]

\* the scrollback line the terminal starts with
welcome ==
  [type |-> "output",
   content |-> <<"Welcome to Web Terminal v1.0.0\nType \"help\" to see available commands.\n">>]

\* the fields of the initial TerminalState that the terminal uses
initialState == [currentDirectory |-> HomeUser, history |-> <<>>, output |-> <<welcome>>]

\* the input line's hooks as they start: the text typed so far, the
\* suggestions shown for it, the one selected and the history cursor
\* (indices count from 0 as in the source, -1 is none)
initialEditor ==
  [currentInput |-> <<>>, suggestions |-> <<>>, selectedSuggestion |-> -1,
   historyIndex |-> -1]

Init ==
  /\ fileSystem = createInitialFileSystem
  /\ call = NoCall
  /\ result = NoResult
  /\ steps = 0
  /\ session = initialState
  /\ editor = initialEditor

ExecuteCommand(command, args, currentDir, random, throws) ==
  /\ call = NoCall
  /\ steps < MaxSteps
  /\ \E done \in {executeCommand(command, args, currentDir, fileSystem, random, throws)} :
       /\ fileSystem' = done.fileSystem
       /\ result' = done.result
  /\ call' = [op |-> "executeCommand", command |-> command, args |-> args,
              currentDir |-> currentDir]
  /\ steps' = steps + 1
  /\ UNCHANGED <<session, editor>>

\* the caller has read the result (Terminal.tsx:96-137 is such a caller)
TakeResult ==
  /\ call # NoCall
  /\ call' = NoCall
  /\ result' = NoResult
  /\ UNCHANGED <<fileSystem, steps, session, editor>>

Next ==
  \/ \E command \in CommandNames :
       \E args \in ArgListsOf(command), currentDir \in CurrentDirsOf(command),
          random \in RandomsOf(command), throws \in ThrowsOf(command) :
         ExecuteCommand(command, args, currentDir, random, throws)
  \/ TakeResult

Spec == Init /\ [][Next]_vars

----------------------------------------------------------------------------
\* The store's primitives called directly

CreateFile(path, content) ==
  /\ call = NoCall
  /\ steps < MaxSteps
  /\ \E done \in {createFile(fileSystem, path, content)} :
       /\ fileSystem' = done.fileSystem
       /\ result' = [ok |-> done.ok]
  /\ call' = [op |-> "createFile", path |-> path, content |-> content]
  /\ steps' = steps + 1
  /\ UNCHANGED <<session, editor>>

CreateDirectory(path) ==
  /\ call = NoCall
  /\ steps < MaxSteps
  /\ \E done \in {createDirectory(fileSystem, path)} :
       /\ fileSystem' = done.fileSystem
       /\ result' = [ok |-> done.ok]
  /\ call' = [op |-> "createDirectory", path |-> path]
  /\ steps' = steps + 1
  /\ UNCHANGED <<session, editor>>

NextStore ==
  \/ \E path \in StorePaths, content \in StoreContents : CreateFile(path, content)
  \/ \E path \in StorePaths : CreateDirectory(path)
  \/ TakeResult

SpecStore == Init /\ [][NextStore]_vars

----------------------------------------------------------------------------
\* resolvePath alone, on every pair of a current directory and a token

InitResolve ==
  /\ fileSystem = createInitialFileSystem
  /\ call \in {[op |-> "resolvePath", currentDir |-> d, path |-> p] :
                 d \in ResolveDirs, p \in ResolveTokens}
  /\ result = NoResult
  /\ steps = 0
  /\ session = initialState
  /\ editor = initialEditor

ResolvePath ==
  /\ call.op = "resolvePath"
  /\ result = NoResult
  /\ result' = [resolved |-> resolvePath(call.currentDir, call.path)]
  /\ UNCHANGED <<fileSystem, call, steps, session, editor>>

NextResolve == ResolvePath

SpecResolve == InitResolve /\ [][NextResolve]_vars

----------------------------------------------------------------------------
\* The terminal session (Terminal.tsx) and the helpers it calls

\* `input.trim().split(/\s+/)` for an input that is not blank, and the empty
\* list for a blank one: the maximal runs of characters that are not whitespace
RECURSIVE splitWhitespace(_)
splitWhitespace(s) ==
  IF s = <<>> THEN <<>>
  ELSE IF isWhitespace(Head(s)) THEN splitWhitespace(Tail(s))
  ELSE LET n == CHOOSE k \in 1..Len(s) :
                  /\ \A i \in 1..k : ~isWhitespace(s[i])
                  /\ (k = Len(s) \/ isWhitespace(s[k + 1]))
       IN <<SubSeq(s, 1, n)>> \o splitWhitespace(SubSeq(s, n + 1, Len(s)))

parseCommand(input) ==
  LET parts == splitWhitespace(input)
  IN IF parts = <<>> THEN [command |-> <<>>, args |-> <<>>]
     ELSE [command |-> Head(parts), args |-> Tail(parts)]

formatPrompt(currentDir) ==
  <<"user@webterminal:">> \o (IF currentDir = HomeUser THEN <<"~">> ELSE currentDir)
    \o <<"$ ">>

\* executeCurrentCommand with the scrollback emptied before the command line
\* is added to it
executeCurrentCommandClearFirst(state, input, res) ==
  LET commandOutput == [type |-> "command",
                        content |-> formatPrompt(state.currentDirectory) \o input]
      echoed == [state EXCEPT !.output = Append(@, commandOutput),
                              !.history = Append(@, input)]
      withOutput == IF res.output # <<>>
                    THEN [echoed EXCEPT !.output =
                            Append(@, [type |-> "output", content |-> res.output])]
                    ELSE echoed
  IN IF res.output = CLEAR_SENTINEL THEN [echoed EXCEPT !.output = <<commandOutput>>]
     ELSE IF startsWith(res.output, CD_SENTINEL)
     THEN [echoed EXCEPT !.currentDirectory = substringFrom(res.output, 6)]
     ELSE IF "error" \in DOMAIN res /\ res.error # <<>>
     THEN [withOutput EXCEPT !.output =
             Append(@, [type |-> "error", content |-> res.error])]
     ELSE withOutput

\* the state the setState calls of executeCurrentCommand leave, applied in
\* the order they are queued
executeCurrentCommand(state, input, res) ==
  LET commandOutput == [type |-> "command",
                        content |-> formatPrompt(state.currentDirectory) \o input]
      echoed == [state EXCEPT !.output = Append(@, commandOutput),
                              !.history = Append(@, input)]
      withOutput == IF res.output # <<>>
                    THEN [echoed EXCEPT !.output =
                            Append(@, [type |-> "output", content |-> res.output])]
                    ELSE echoed
  IN IF res.output = CLEAR_SENTINEL THEN [echoed EXCEPT !.output = <<>>]
     ELSE IF startsWith(res.output, CD_SENTINEL)
     THEN [echoed EXCEPT !.currentDirectory = substringFrom(res.output, 6)]
     ELSE IF "error" \in DOMAIN res /\ res.error # <<>>
     THEN [withOutput EXCEPT !.output =
             Append(@, [type |-> "error", content |-> res.error])]
     ELSE withOutput

\* a command line: the words joined by one space
lineOf(words) == join(words, <<" ">>)

\* the lines submitted: cd to directories, to a file and to nothing, commands
\* that change the tree, clear, echo of text and of the two sentinels, an
\* unknown command, a line with more whitespace and a blank line
SessionLines ==
  {lineOf(<<C_cd>>), lineOf(<<C_cd, EtcPath>>), lineOf(<<C_cd, N_hosts>>),
   lineOf(<<C_cd, DOTDOT>>), lineOf(<<C_cd, DOT>>), lineOf(<<C_cd, EtcHostsPath>>),
   lineOf(<<C_cd, SLASH \o SLASH \o SLASH>>), lineOf(<<C_cd, SLASH \o DOT>>),
   lineOf(<<C_cd, EtcPath, N_hosts>>),
   lineOf(<<C_touch, EtcPath>>), lineOf(<<C_touch, N_hosts>>),
   lineOf(<<C_mkdir, N_hosts>>), lineOf(<<C_mkdir, EtcPath>>),
   lineOf(<<C_clear>>), lineOf(<<C_clear, N_etc>>),
   lineOf(<<C_echo, N_etc>>), lineOf(<<C_echo>>),
   lineOf(<<C_echo, CD_SENTINEL \o SLASH \o N_hosts>>), lineOf(<<C_echo, CLEAR_SENTINEL>>),
   lineOf(<<C_ls>>), lineOf(<<C_pwd>>), lineOf(<<C_cat, N_hosts>>),
   lineOf(<<<<"L", "S">>>>),
   <<" ">> \o lineOf(<<C_cd, <<>>, EtcPath>>) \o <<" ">>,
   <<" ", " ">>, <<>>}

\* !currentInput.trim()
isBlank(input) == splitWhitespace(input) = <<>>

\* what executeCurrentCommand sets in the input line's hooks
submitted(ed) ==
  [ed EXCEPT !.historyIndex = -1, !.currentInput = <<>>, !.suggestions = <<>>,
             !.selectedSuggestion = -1]

\* Enter on a line: a blank line returns at once. `call` keeps the line, what
\* parseCommand made of it and the current directory the command ran in.
ExecuteCurrentCommand(input, random, throws) ==
  /\ call = NoCall
  /\ steps < MaxSteps
  /\ IF isBlank(input)
     THEN UNCHANGED vars
     ELSE \E parsed \in {parseCommand(input)} :
          \E done \in {executeCommand(parsed.command, parsed.args, session.currentDirectory,
                                      fileSystem, random, throws)} :
            /\ fileSystem' = done.fileSystem
            /\ result' = done.result
            /\ session' = executeCurrentCommand(session, input, done.result)
            /\ editor' = submitted(editor)
            /\ call' = [op |-> "executeCurrentCommand", input |-> input,
                        command |-> parsed.command, args |-> parsed.args,
                        currentDir |-> session.currentDirectory]
            /\ steps' = steps + 1

NextSession ==
  \/ \E input \in SessionLines :
       \E random \in RandomsOf(parseCommand(input).command),
          throws \in ThrowsOf(parseCommand(input).command) :
         ExecuteCurrentCommand(input, random, throws)
  \/ TakeResult

SpecSession == Init /\ [][NextSession]_vars

----------------------------------------------------------------------------
\* getCommandSuggestions alone (fileSystem.ts:243-255)

\* the `commands` array of getCommandSuggestions
suggestionCommands ==
  <<C_ls, C_cd, C_pwd, C_cat, C_echo, C_mkdir, C_touch, C_whoami, C_date,
    C_clear, C_help, C_uname, C_which, C_file, C_head, C_tail, C_wc, C_grep,
    C_hello, C_calc, C_weather, C_joke, C_cowsay, C_fortune, C_matrix, C_ascii,
    C_color, C_timer>>

\* getCommandSuggestions comparing the input as it is typed
getCommandSuggestionsAsTyped(input) ==
  IF input = <<>> THEN suggestionCommands
  ELSE SelectSeq(suggestionCommands, LAMBDA cmd : startsWith(cmd, input))

getCommandSuggestions(input) ==
  IF input = <<>> THEN suggestionCommands
  ELSE SelectSeq(suggestionCommands, LAMBDA cmd : startsWith(cmd, toLowerCase(input)))

\* the prefixes asked for: at most two characters in either letter case, and
\* some longer ones
SuggestLetters == {"c", "C", "a", "A", "l", "L", "h", "e", "x", " "}

SuggestPrefixes ==
  {<<>>} \cup {<<a>> : a \in SuggestLetters}
  \cup {<<a, b>> : a \in SuggestLetters, b \in SuggestLetters}
  \cup {C_clear, toUpperCase(C_clear), <<"c", "A", "l">>, C_clear \o <<"x">>, C_history}

InitSuggest ==
  /\ fileSystem = createInitialFileSystem
  /\ call \in {[op |-> "getCommandSuggestions", input |-> p] : p \in SuggestPrefixes}
  /\ result = NoResult
  /\ steps = 0
  /\ session = initialState
  /\ editor = initialEditor

GetCommandSuggestions ==
  /\ call.op = "getCommandSuggestions"
  /\ result = NoResult
  /\ result' = [suggestions |-> getCommandSuggestions(call.input)]
  /\ UNCHANGED <<fileSystem, call, steps, session, editor>>

NextSuggest == GetCommandSuggestions

SpecSuggest == InitSuggest /\ [][NextSuggest]_vars


----------------------------------------------------------------------------
\* The input line of the terminal: handleInputChange, handleTabCompletion and
\* the keys of handleKeyDown. Enter submits the text of the input line.

\* what the user leaves in the input line by typing
TypedLines ==
  {<<>>, <<" ">>, <<"c">>, C_pwd, lineOf(<<C_cd, EtcPath>>)}

\* handleInputChange: the input line now reads `value`
HandleInputChange(value) ==
  /\ call = NoCall
  /\ value # editor.currentInput
  /\ LET command == parseCommand(value).command
     IN editor' =
          [currentInput |-> value,
           historyIndex |-> -1,
           suggestions |-> IF command # <<>> /\ ~includes(value, <<" ">>)
                           THEN getCommandSuggestions(command)
                           ELSE <<>>,
           selectedSuggestion |-> -1]
  /\ UNCHANGED <<fileSystem, call, result, steps, session>>

\* Tab: handleTabCompletion
Tab ==
  /\ call = NoCall
  /\ LET suggestions == editor.suggestions
         selectedSuggestion == editor.selectedSuggestion
         completed(i) ==
           [editor EXCEPT !.currentInput = suggestions[i + 1] \o <<" ">>,
                          !.suggestions = <<>>,
                          !.selectedSuggestion = -1]
     IN editor' = IF Len(suggestions) = 0 THEN editor
                  ELSE IF Len(suggestions) = 1 THEN completed(0)
                  ELSE IF selectedSuggestion >= 0 THEN completed(selectedSuggestion)
                  ELSE editor
  /\ UNCHANGED <<fileSystem, call, result, steps, session>>

\* Enter: executeCurrentCommand on the text of the input line. A blank line
\* returns at once; `call` keeps the line that was in the input line.
Enter(random, throws) ==
  /\ call = NoCall
  /\ call' = [op |-> "Enter", input |-> editor.currentInput]
  /\ IF isBlank(editor.currentInput)
     THEN /\ result' = NoResult
          /\ UNCHANGED <<fileSystem, steps, session, editor>>
     ELSE /\ steps < MaxSteps
          /\ \E parsed \in {parseCommand(editor.currentInput)} :
             \E done \in {executeCommand(parsed.command, parsed.args,
                                         session.currentDirectory, fileSystem,
                                         random, throws)} :
               /\ fileSystem' = done.fileSystem
               /\ result' = done.result
               /\ session' = executeCurrentCommand(session, editor.currentInput, done.result)
               /\ editor' = submitted(editor)
               /\ steps' = steps + 1

\* ArrowUp with the history cursor one past the entry it goes to
ArrowUpCursorLate ==
  /\ call = NoCall
  /\ LET suggestions == editor.suggestions
         historyIndex == editor.historyIndex
         history == session.history
         newIndex == IF historyIndex = -1 THEN Len(history)
                     ELSE Max(0, historyIndex - 1)
     IN editor' =
          IF Len(suggestions) > 0
          THEN [editor EXCEPT !.selectedSuggestion =
                  IF @ <= 0 THEN Len(suggestions) - 1 ELSE @ - 1]
          ELSE IF Len(history) > 0
          THEN [editor EXCEPT !.historyIndex = newIndex,
                              !.currentInput = IF newIndex + 1 \in DOMAIN history
                                               THEN history[newIndex + 1] ELSE <<>>]
          ELSE editor
  /\ UNCHANGED <<fileSystem, call, result, steps, session>>

\* ArrowUp: the selected suggestion moves up and wraps; without suggestions
\* the history cursor moves to the last entry, then towards the first
ArrowUp ==
  /\ call = NoCall
  /\ LET suggestions == editor.suggestions
         historyIndex == editor.historyIndex
         history == session.history
         newIndex == IF historyIndex = -1 THEN Len(history) - 1
                     ELSE Max(0, historyIndex - 1)
     IN editor' =
          IF Len(suggestions) > 0
          THEN [editor EXCEPT !.selectedSuggestion =
                  IF @ <= 0 THEN Len(suggestions) - 1 ELSE @ - 1]
          ELSE IF Len(history) > 0
          THEN [editor EXCEPT !.historyIndex = newIndex,
                              !.currentInput = IF newIndex + 1 \in DOMAIN history
                                               THEN history[newIndex + 1] ELSE <<>>]
          ELSE editor
  /\ UNCHANGED <<fileSystem, call, result, steps, session>>

\* ArrowDown: the selected suggestion moves down and wraps; without
\* suggestions the history cursor moves towards the last entry and past it
\* to none, which empties the input line
ArrowDown ==
  /\ call = NoCall
  /\ LET suggestions == editor.suggestions
         historyIndex == editor.historyIndex
         history == session.history
         newIndex == historyIndex + 1
     IN editor' =
          IF Len(suggestions) > 0
          THEN [editor EXCEPT !.selectedSuggestion =
                  IF @ >= Len(suggestions) - 1 THEN 0 ELSE @ + 1]
          ELSE IF historyIndex # -1
          THEN IF newIndex >= Len(history)
               THEN [editor EXCEPT !.historyIndex = -1, !.currentInput = <<>>]
               ELSE [editor EXCEPT !.historyIndex = newIndex,
                                   !.currentInput = history[newIndex + 1]]
          ELSE editor
  /\ UNCHANGED <<fileSystem, call, result, steps, session>>

\* Escape
Escape ==
  /\ call = NoCall
  /\ editor' = [editor EXCEPT !.suggestions = <<>>, !.selectedSuggestion = -1,
                              !.historyIndex = -1]
  /\ UNCHANGED <<fileSystem, call, result, steps, session>>

\* c with the control key
CtrlC ==
  /\ call = NoCall
  /\ editor' = [editor EXCEPT !.currentInput = <<>>, !.suggestions = <<>>,
                              !.selectedSuggestion = -1, !.historyIndex = -1]
  /\ UNCHANGED <<fileSystem, call, result, steps, session>>

\* l with the control key
CtrlL ==
  /\ call = NoCall
  /\ session' = [session EXCEPT !.output = <<>>]
  /\ UNCHANGED <<fileSystem, call, result, steps, editor>>

NextKeys ==
  \/ \E value \in TypedLines : HandleInputChange(value)
  \/ Tab
  \/ \E random \in RandomsOf(parseCommand(editor.currentInput).command),
        throws \in ThrowsOf(parseCommand(editor.currentInput).command) :
       Enter(random, throws)
  \/ ArrowUp
  \/ ArrowDown
  \/ Escape
  \/ CtrlC
  \/ CtrlL
  \/ TakeResult

SpecKeys == Init /\ [][NextKeys]_vars
----------------------------------------------------------------------------
\* What the claims speak of

\* every node of the tree with the children keys that lead to it from the root
RECURSIVE nodesUnder(_, _)
nodesUnder(node, keys) ==
  {[keys |-> keys, node |-> node]}
  \cup (IF hasChildren(node)
        THEN UNION {nodesUnder(node.children[i].value, Append(keys, node.children[i].key)) :
                      i \in 1..Len(node.children)}
        ELSE {})

allNodes(fs) == nodesUnder(fs[SLASH], <<>>)

\* a node's absolute path: the '/'-join of the children keys from the root
absolutePathOf(keys) == SLASH \o join(keys, SLASH)

\* an absolute path in normal form: '/', or '/'-separated segments none of
\* which is empty, '.' or '..'
isNormalizedAbsolute(path) ==
  /\ startsWith(path, SLASH)
  /\ \/ path = SLASH
     \/ \A s \in {split(Tail(path), "/")[i] : i \in 1..Len(split(Tail(path), "/"))} :
          s \notin {<<>>, DOT, DOTDOT}

\* the parent of a path looks up to an existing directory
parentIsDirectory(fs, path) ==
  LET parent == getItemAtPath(fs, parentPathOf(path))
  IN parent # Null /\ parent.type = "directory"

isCreate(c) == c.op \in {"createFile", "createDirectory"}
isExecute(c) == c.op = "executeCommand"

\* C1: after any sequence of commands, every path that looked up to a node
\* still looks up to a node: no call makes the path of an existing node
\* look up to nothing.
C1_NoNodeLost ==
  [][\A n \in allNodes(fileSystem) :
       getItemAtPath(fileSystem, absolutePathOf(n.keys)) # Null
         => getItemAtPath(fileSystem', absolutePathOf(n.keys)) # Null]_vars

\* C2: a node that exists at a path keeps its kind and its content: no call
\* changes the type or the content found at the path of an existing node.
C2_ExistingNodesKept ==
  [][\A n \in allNodes(fileSystem) :
       LET before == getItemAtPath(fileSystem, absolutePathOf(n.keys))
           after == getItemAtPath(fileSystem', absolutePathOf(n.keys))
       IN (before # Null /\ after # Null)
            => /\ after.type = before.type
               /\ ("content" \in DOMAIN after) = ("content" \in DOMAIN before)
               /\ contentOf(after) = contentOf(before)]_vars

\* C3: path resolution is idempotent: resolving the resolved path again, from
\* the same current directory, gives the resolved path.
C3_ResolveIdempotent ==
  "resolved" \in DOMAIN result
    => resolvePath(call.currentDir, result.resolved) = result.resolved

\* C4: from a normalized current directory, resolvePath returns a normalized
\* absolute path: a leading '/', no '.', '..' or empty segment, no trailing '/'
\* unless it is the root.
C4_ResolveNormalized ==
  ("resolved" \in DOMAIN result /\ isNormalizedAbsolute(call.currentDir))
    => isNormalizedAbsolute(result.resolved)

\* C5: in every reachable tree every non-root node is the node that lookup
\* finds on its absolute path.
C5_NodesFoundByPath ==
  \A n \in allNodes(fileSystem) :
    n.keys # <<>> => getItemAtPath(fileSystem, absolutePathOf(n.keys)) = n.node

\* C6: createFile and createDirectory on a path whose parent does not look up
\* to an existing directory return false and leave the tree as it was.
C6_FailureLeavesTree ==
  [][(call = NoCall /\ isCreate(call') /\ ~parentIsDirectory(fileSystem, call'.path))
       => (result'.ok = FALSE /\ fileSystem' = fileSystem)]_vars

\* a failed create whose parent path looks up to a file
C6_Witness ==
  /\ isCreate(call)
  /\ result.ok = FALSE
  /\ getItemAtPath(fileSystem, parentPathOf(call.path)) # Null
  /\ getItemAtPath(fileSystem, parentPathOf(call.path)).type = "file"

\* C7: createFile on a normalized absolute path with a non-empty leaf name
\* whose parent looks up to a directory returns true, and lookup on the path
\* then finds a file with the given content whose size is the content's length.
C7_CreateFileRoundTrip ==
  [][(/\ call = NoCall
      /\ call'.op = "createFile"
      /\ isNormalizedAbsolute(call'.path)
      /\ leafNameOf(call'.path) # <<>>
      /\ parentIsDirectory(fileSystem, call'.path))
       => (/\ result'.ok = TRUE
           /\ LET item == getItemAtPath(fileSystem', call'.path)
              IN /\ item # Null
                 /\ item.type = "file"
                 /\ "content" \in DOMAIN item
                 /\ item.content = call'.content
                 /\ item.size = Len(call'.content))]_vars

\* a file with content created under /hosts, a directory that only
\* createDirectory can have made
C7_Witness ==
  /\ call.op = "createFile"
  /\ result.ok = TRUE
  /\ call.path = SLASH \o N_hosts \o SLASH \o N_etc
  /\ call.content = <<"h", "i">>
  /\ getItemAtPath(fileSystem, SLASH \o N_hosts).type = "directory"
  /\ getItemAtPath(fileSystem, call.path).content = <<"h", "i">>

\* C8: in every reachable tree the size of a file is the length of its
\* content and the size of a directory is 4096.
C8_SizesMatch ==
  \A n \in allNodes(fileSystem) :
    /\ n.node.type = "file" => n.node.size = Len(contentOf(n.node))
    /\ n.node.type = "directory" => n.node.size = 4096

\* C9: in every reachable tree there is one root, a directory at '/'; a file
\* has no children property, a directory has one and has no content.
C9_NodeShapes ==
  /\ DOMAIN fileSystem = {SLASH}
  /\ fileSystem[SLASH].type = "directory"
  /\ \A n \in allNodes(fileSystem) :
       /\ n.node.type \in {"file", "directory"}
       /\ n.node.type = "file" => "children" \notin DOMAIN n.node
       /\ n.node.type = "directory"
            => ("children" \in DOMAIN n.node /\ "content" \notin DOMAIN n.node)

\* a tree in which touch has made a file and mkdir a directory
C9_Witness ==
  /\ steps = MaxSteps
  /\ \E n \in allNodes(fileSystem) :
       n.node.type = "file" /\ n.node.content = <<>>
  /\ \E n \in allNodes(fileSystem) :
       /\ n.node.type = "directory"
       /\ n.node.owner = "user"
       /\ n.node.children = <<>>

hasError(r) == "error" \in DOMAIN r

\* C10 as stated: a result with a non-zero exitCode carries a non-empty error
\* string, and a result with exitCode 0 carries no error.
C10_FailureHasError ==
  isExecute(call)
    => /\ result.exitCode # 0 => (hasError(result) /\ result.error # <<>>)
       /\ result.exitCode = 0 => ~hasError(result)

\* C10 as amended: a result with a non-zero exitCode carries a non-empty error
\* string, except the result of grep when its file argument looks up to a file
\* of which no line contains the pattern: that result has exitCode 1, an empty
\* output and no error. A result with exitCode 0 carries no error.
C10_FailureHasErrorExceptGrepNoMatch ==
  isExecute(call)
    => /\ (result.exitCode # 0 /\ hasError(result)) => result.error # <<>>
       /\ result.exitCode = 0 => ~hasError(result)
       /\ (result.exitCode # 0 /\ ~hasError(result))
            => /\ call.command = C_grep
               /\ Len(call.args) >= 2
               /\ result.exitCode = 1
               /\ result.output = <<>>
               /\ LET item == getItemAtPath(fileSystem,
                                            resolvePath(call.currentDir, call.args[2]))
                      lines == split(contentOf(item), "\n")
                  IN /\ item # Null
                     /\ item.type = "file"
                     /\ \A i \in 1..Len(lines) : ~includes(lines[i], call.args[1])

\* grep finds no line of /etc/hosts that contains the pattern
C10_Witness ==
  /\ isExecute(call)
  /\ call.command = C_grep
  /\ call.args = <<N_etc, N_hosts>>
  /\ call.currentDir = EtcPath
  /\ result.exitCode = 1
  /\ ~hasError(result)
  /\ getItemAtPath(fileSystem, EtcHostsPath).content = HostsContent

\* C11: a command name that the switch has no case for, a known name in
\* another letter case included, yields exitCode 127, an empty output and the
\* error 'bash: <name>: command not found', and the tree is left as it was.
C11_UnknownCommand ==
  [][(call = NoCall /\ isExecute(call') /\ call'.command \notin dispatchNames)
       => (/\ result'.exitCode = 127
           /\ result'.output = <<>>
           /\ hasError(result')
           /\ result'.error = <<"bash: ">> \o call'.command \o <<": command not found">>
           /\ fileSystem' = fileSystem)]_vars

\* 'LS' is not found, in a tree that mkdir or touch has changed before
C11_Witness ==
  /\ isExecute(call)
  /\ call.command = <<"L", "S">>
  /\ result.exitCode = 127
  /\ fileSystem # createInitialFileSystem

isSubmit(c) == c.op = "executeCurrentCommand"

\* C12: a submitted cd succeeds exactly when the resolved target (the
\* argument, or /home/user without one) looks up to a directory; then the
\* session's current directory becomes the resolved path; otherwise the result
\* has exitCode 1 and an error, and the current directory stays as it was.
C12_CdChangesDirectory ==
  [][(call = NoCall /\ isSubmit(call') /\ call'.command = C_cd)
       => LET target == IF call'.args = <<>> THEN HomeUser ELSE call'.args[1]
              resolved == resolvePath(session.currentDirectory, target)
              item == getItemAtPath(fileSystem, resolved)
          IN IF item # Null /\ item.type = "directory"
             THEN /\ result'.exitCode = 0
                  /\ ~hasError(result')
                  /\ session'.currentDirectory = resolved
             ELSE /\ result'.exitCode = 1
                  /\ hasError(result')
                  /\ result'.error # <<>>
                  /\ session'.currentDirectory = session.currentDirectory]_vars

\* cd /etc, typed with more whitespace, has moved the session from /home/user
C12_Witness ==
  /\ isSubmit(call)
  /\ call.command = C_cd
  /\ call.args = <<EtcPath>>
  /\ call.input # lineOf(<<C_cd, EtcPath>>)
  /\ call.currentDir = HomeUser
  /\ result.exitCode = 0
  /\ session.currentDirectory = EtcPath

\* C13: ls with -a, -la or -al on a path that looks up to the root directory
\* lists the children of the root and nothing else: no '.' and '..' entries
\* are put in front of them.
C13_NoDotEntriesAtRoot ==
  (/\ isExecute(call)
   /\ call.command = C_ls
   /\ \E i \in 1..Len(call.args) : call.args[i] \in {FLAG_a, FLAG_la, FLAG_al})
    => LET paths == SelectSeq(call.args, LAMBDA a : ~startsWith(a, <<"-">>))
           target == IF paths = <<>> \/ paths[1] = <<>> THEN call.currentDir ELSE paths[1]
           item == getItemAtPath(fileSystem, resolvePath(call.currentDir, target))
           root == fileSystem[SLASH]
           longFormat == \E i \in 1..Len(call.args) : call.args[i] \in {FLAG_l, FLAG_la, FLAG_al}
       IN item = root
            => /\ result.exitCode = 0
               /\ IF longFormat
                  THEN Len(split(result.output, "\n")) = Len(root.children)
                  ELSE result.output =
                         join([i \in 1..Len(root.children) |-> root.children[i].value.name],
                              <<" ", " ">>)

\* C14: every command other than mkdir and touch, a name that is not found
\* included, leaves the tree as it was, whatever its arguments and the
\* current directory.
C14_OnlyMkdirAndTouchWrite ==
  [][(call = NoCall /\ isExecute(call') /\ call'.command \notin {C_mkdir, C_touch})
       => fileSystem' = fileSystem]_vars

\* cat has read a file in a tree that mkdir or touch changed before
C14_Witness ==
  /\ isExecute(call)
  /\ call.command = C_cat
  /\ result.exitCode = 0
  /\ result.output # <<>>
  /\ fileSystem # createInitialFileSystem

\* the tree after the store's primitive of mkdir or touch has been applied to
\* the first k arguments, one after the other
RECURSIVE treeAfter(_, _, _, _, _)
treeAfter(command, args, currentDir, fs, k) ==
  IF k = 0 THEN fs
  ELSE LET before == treeAfter(command, args, currentDir, fs, k - 1)
           path == resolvePath(currentDir, args[k])
       IN IF command = C_mkdir THEN createDirectory(before, path).fileSystem
          ELSE createFile(before, path, <<>>).fileSystem

\* the arguments whose parent does not look up to a directory at their turn
failingArguments(command, args, currentDir, fs) ==
  {i \in 1..Len(args) :
     ~parentIsDirectory(treeAfter(command, args, currentDir, fs, i - 1),
                        resolvePath(currentDir, args[i]))}

\* C15: mkdir and touch with at least one argument apply their arguments from
\* left to right and stop at the first whose parent does not look up to a
\* directory: the result then has exitCode 1 and an error that names this
\* argument, the arguments before it have been applied and those after it
\* have not. If no argument fails the result has exitCode 0, an empty output
\* and no error, and all arguments have been applied.
C15_StopAtFirstFailure ==
  [][(/\ call = NoCall
      /\ isExecute(call')
      /\ call'.command \in {C_mkdir, C_touch}
      /\ call'.args # <<>>)
       => LET command == call'.command
              args == call'.args
              failing == failingArguments(command, args, call'.currentDir, fileSystem)
              first == CHOOSE i \in failing : \A j \in failing : i <= j
          IN IF failing # {}
             THEN /\ result'.exitCode = 1
                  /\ result'.output = <<>>
                  /\ hasError(result')
                  /\ includes(result'.error, args[first])
                  /\ fileSystem' = treeAfter(command, args, call'.currentDir, fileSystem, first - 1)
             ELSE /\ result'.exitCode = 0
                  /\ result'.output = <<>>
                  /\ ~hasError(result')
                  /\ fileSystem' = treeAfter(command, args, call'.currentDir, fileSystem, Len(args))]_vars

\* mkdir hosts etc/hosts etc in /home/user: hosts is made, etc/hosts fails
\* and etc is not made
C15_Witness ==
  /\ isExecute(call)
  /\ call.command = C_mkdir
  /\ call.args = <<N_hosts, N_etc \o SLASH \o N_hosts, N_etc>>
  /\ call.currentDir = HomeUser
  /\ result.exitCode = 1
  /\ getItemAtPath(fileSystem, HomeUser \o SLASH \o N_hosts) # Null
  /\ getItemAtPath(fileSystem, HomeUser \o SLASH \o N_etc) = Null

\* C16: on a file, head -n N outputs the first min(N, number of lines) lines
\* and tail -n N the last min(N, number of lines), for every N written in
\* decimal digits, 0 included; without -n, or with an N that is no number, N is 10.
C16_HeadTailCount ==
  (/\ isExecute(call)
   /\ call.command \in {C_head, C_tail}
   /\ Len(call.args) \in {1, 3}
   /\ Len(call.args) = 3 => call.args[1] = FLAG_n /\ call.args[2] # <<>>)
    => LET counted == Len(call.args) = 3
           numeric == counted /\ \A i \in 1..Len(call.args[2]) : isDigit(call.args[2][i])
           notNumber == counted /\ ~isDigit(call.args[2][1]) /\ call.args[2][1] \notin {"-", "+", " "}
           file == call.args[Len(call.args)]
           item == getItemAtPath(fileSystem, resolvePath(call.currentDir, file))
           lines == split(contentOf(item), "\n")
           N == IF numeric THEN digitsValue(call.args[2]) ELSE 10
           n == IF N < Len(lines) THEN N ELSE Len(lines)
       IN (item # Null /\ item.type = "file" /\ (~counted \/ numeric \/ notNumber))
            => /\ result.exitCode = 0
               /\ result.output =
                    join(IF call.command = C_head THEN SubSeq(lines, 1, n)
                         ELSE SubSeq(lines, Len(lines) - n + 1, Len(lines)),
                         <<"\n">>)

\* the segments of a path: what is between its slashes
segmentsOf(path) == filterBoolean(split(path, "/"))

\* C17: for every current directory and every relative token, the resolved
\* path starts with '/', and one more '..' at the end of the token removes the
\* last segment of the resolved path, or leaves it without segments when it
\* has none: the result never goes above '/'. resolve('/home/user', '..') is
\* '/home', resolve('/', '..') is '/', resolve('/home/user', '../../etc') is '/etc'.
C17_DotDotPops ==
  ("resolved" \in DOMAIN result /\ ~startsWith(call.path, SLASH))
    => LET d == call.currentDir
           p == call.path
           segments == segmentsOf(result.resolved)
           above == resolvePath(d, p \o SLASH \o DOTDOT)
       IN /\ startsWith(result.resolved, SLASH)
          /\ startsWith(above, SLASH)
          /\ segmentsOf(above) = SubSeq(segments, 1, Len(segments) - 1)
          /\ p = DOTDOT
               => segments = SubSeq(segmentsOf(d), 1, Len(segmentsOf(d)) - 1)
          /\ (d = HomeUser /\ p = DOTDOT) => result.resolved = SLASH \o N_home
          /\ (d = SLASH /\ p = DOTDOT) => result.resolved = SLASH
          /\ (d = HomeUser /\ p = DOTDOT \o SLASH \o DOTDOT \o SLASH \o N_etc)
               => result.resolved = EtcPath

\* '../../etc' resolved from /home/user
C17_Witness ==
  /\ "resolved" \in DOMAIN result
  /\ call.currentDir = HomeUser
  /\ call.path = DOTDOT \o SLASH \o DOTDOT \o SLASH \o N_etc
  /\ result.resolved = EtcPath

\* a name starts with a prefix when letter case is not looked at
startsWithAnyCase(name, prefix) ==
  /\ Len(prefix) <= Len(name)
  /\ \A i \in 1..Len(prefix) : toLowerCase(<<name[i]>>) = toLowerCase(<<prefix[i]>>)

\* C18: getCommandSuggestions returns the names of its list that start with
\* the prefix when letter case is not looked at, all of them, each once and in
\* the order of the list; the empty prefix returns the whole list.
C18_SuggestionsFilterList ==
  "suggestions" \in DOMAIN result
    => LET found == result.suggestions
           listed == suggestionCommands
           matching == {i \in 1..Len(listed) : startsWithAnyCase(listed[i], call.input)}
       IN /\ Len(found) = Cardinality(matching)
          /\ \A k \in 1..Len(found) :
               \E i \in matching :
                 /\ found[k] = listed[i]
                 /\ Cardinality({j \in matching : j < i}) = k - 1
          /\ call.input = <<>> => found = listed

\* 'CA' finds cat and calc, in this order
C18_Witness ==
  /\ "suggestions" \in DOMAIN result
  /\ call.input = <<"C", "A">>
  /\ result.suggestions = <<C_cat, C_calc>>

\* C19: right after clear is submitted the scrollback is empty, the line of
\* clear itself included, and the current directory and the tree are as
\* they were.
C19_ClearWipesScrollback ==
  [][(call = NoCall /\ isSubmit(call') /\ call'.command = C_clear)
       => (/\ session'.output = <<>>
           /\ session'.currentDirectory = session.currentDirectory
           /\ fileSystem' = fileSystem)]_vars

\* clear submitted in /etc, after a cd that left a line in the scrollback
C19_Witness ==
  /\ isSubmit(call)
  /\ call.command = C_clear
  /\ call.currentDir = EtcPath
  /\ session.output = <<>>
  /\ session.currentDirectory = EtcPath
  /\ Len(session.history) = 2

\* C20: in every reachable session state the session's current directory
\* looks up to a directory of the session's tree.
C20_CurrentDirectoryExists ==
  /\ getItemAtPath(fileSystem, session.currentDirectory) # Null
  /\ getItemAtPath(fileSystem, session.currentDirectory).type = "directory"

\* C21: the session's current directory changes only when the submitted
\* command is cd and that cd succeeded; no other command makes the session
\* change its directory.
C21_OnlyCdChangesDirectory ==
  [][session'.currentDirectory # session.currentDirectory
       => (/\ isSubmit(call')
           /\ call'.command = C_cd
           /\ result'.exitCode = 0)]_vars

\* a name executeCommand has a case for: whatever the arguments, the
\* current directory and the draws, its result is not exitCode 127
isDispatched(name, fs) ==
  \A args \in ArgListsOf(name) \cup {<<>>}, currentDir \in CurrentDirs :
    \A random \in RandomsOf(name), throws \in ThrowsOf(name) :
      executeCommand(name, args, currentDir, fs, random, throws).result.exitCode # 127

\* `which name` answers /bin/name
whichReports(name) ==
  LET res == handleWhich(<<name>>)
  IN res.exitCode = 0 /\ res.output = <<"/","b","i","n","/">> \o name

\* name is in the list getCommandSuggestions filters
isSuggested(name) ==
  \E i \in DOMAIN getCommandSuggestions(<<>>) : getCommandSuggestions(<<>>)[i] = name

\* C22: the three command tables agree: a name is dispatched by
\* executeCommand exactly when `which` reports /bin/<name> for it, and
\* exactly when it is in the list the suggestions are filtered from.
C22_CommandTablesAgree ==
  \A name \in CommandNames :
    /\ isDispatched(name, fileSystem) <=> whichReports(name)
    /\ isDispatched(name, fileSystem) <=> isSuggested(name)

isEnter(c) == c.op = "Enter"

\* the history cursor is none or the index of a history entry
cursorValid ==
  \/ editor.historyIndex = -1
  \/ (0 <= editor.historyIndex /\ editor.historyIndex < Len(session.history))

\* C23: after any interleaving of typing, Tab, Enter, ArrowUp, ArrowDown,
\* Escape, Ctrl+C and Ctrl+L the history cursor is -1 or a valid index
\* (0 <= index < number of history entries); Enter on a non-blank line appends
\* that line to the history once and resets the cursor to -1; Enter on a
\* blank line executes nothing and records nothing; and nothing but Enter on
\* a non-blank line changes the history.
C23_HistoryCursor ==
  /\ []cursorValid
  /\ [][/\ (call = NoCall /\ isEnter(call') /\ ~isBlank(editor.currentInput))
            => (/\ session'.history = Append(session.history, editor.currentInput)
                /\ editor'.historyIndex = -1
                /\ result' # NoResult)
        /\ (call = NoCall /\ isEnter(call') /\ isBlank(editor.currentInput))
            => (/\ result' = NoResult
                /\ fileSystem' = fileSystem
                /\ session' = session)
        /\ session'.history # session.history
            => (call = NoCall /\ isEnter(call') /\ ~isBlank(editor.currentInput))]_vars

\* two different lines were submitted and ArrowUp, pressed twice, has
\* brought the first of them back into the input line
C23_Witness ==
  /\ Len(session.history) = 2
  /\ editor.historyIndex = 0
  /\ editor.currentInput = session.history[1]
  /\ session.history[1] # session.history[2]
  /\ call = NoCall

====
